---- MODULE Spec2Model ----
(***************************************************************************)
(* Model of packages/page-treasury/src/Tips/Tip.tsx (extractTipState and   *)
(* the hooks of the Tip component) and of the redirect effect of           *)
(* packages/react-components/src/Tabs/index.tsx.                           *)
(*                                                                         *)
(* Three specifications share the module:                                  *)
(*   SpecExtract  extractTipState applied to every bounded tip record      *)
(*   Spec         the Tip component: renders, useMemo, the two effects     *)
(*   SpecTabs     the Tabs component's redirect effect                     *)
(***************************************************************************)
EXTENDS Integers, Sequences, FiniteSets, TLC

VARIABLES
  \* SpecExtract: the arguments and the result of one extractTipState call
  argTip, argAccounts, result,
  \* Spec: the props of Tip, the value of useAccounts, and the hook state
  tip, allAccounts, hash, isMember, onlyUntipped, bestNumber, onSelect,
  memoDeps, memoState, isMedianSelected, updates,
  selectDeps, memberDeps, selectPending, memberPending,
  lastOnSelect, userSet,
  \* SpecTabs: the props of Tabs, the router location and the effect
  basePath, hidden, items, location, effectPending, redirects

extractVars == <<argTip, argAccounts, result>>
tipVars == <<tip, allAccounts, hash, isMember, onlyUntipped, bestNumber, onSelect,
             memoDeps, memoState, isMedianSelected, updates,
             selectDeps, memberDeps, selectPending, memberPending,
             lastOnSelect, userSet>>
tabsVars == <<basePath, hidden, items, location, effectPending, redirects>>
vars == <<extractVars, tipVars, tabsVars>>

(***************************************************************************)
(* Bounds and input sets                                                   *)
(***************************************************************************)
\* longest contribution sequence of a tip record
MaxTips == 3
\* most setMedianTip calls queued between two renders
MaxQueue == 2
\* redirects counted before the Tabs model stops a looping configuration
MaxRedirects == 4

Addresses == {"A", "B"}
Amounts == {0, 2, 5}

(***************************************************************************)
(* Values of the chain types used by Tip.tsx                               *)
(***************************************************************************)
Null == [class |-> "null"]
Undefined == [class |-> "undefined"]

\* AccountId: an object whose toString() is its address
AccountId(a) == [class |-> "AccountId", address |-> a]
\* the bool codec: an object wrapping a boolean
Bool(b) == [class |-> "bool", value |-> b]
\* Option<T>
None == [class |-> "Option", isSome |-> FALSE]
Some(v) == [class |-> "Option", isSome |-> TRUE, value |-> v]

\* Balance and BlockNumber objects (the deposit, the closing block)
Balance(n) == [class |-> "Balance", value |-> n]
BlockNumber(n) == [class |-> "BlockNumber", value |-> n]

AccountIds == {AccountId(a) : a \in Addresses}
Deposits == {Balance(7)}
Blocks == {BlockNumber(9)}

\* JavaScript ToBoolean of the values above: null and undefined are falsy,
\* every object is truthy; the bool codec of @polkadot/types extends the
\* JavaScript Boolean class, so it is an object whatever it wraps
Truthy(x) == x.class \notin {"null", "undefined"}

toString(accountId) == accountId.address

\* Option.isSome read off any value: undefined (falsy) on a non-Option
isSome(x) == x.class = "Option" /\ x.isSome
unwrap(x) == x.value
unwrapOr(x, default) == IF isSome(x) THEN x.value ELSE default

\* Array.prototype.includes
includes(arr, x) == \E i \in DOMAIN arr : arr[i] = x

SeqsUpTo(S, n) == UNION {[1..k -> S] : k \in 0..n}

Contributions == AccountIds \X Amounts

\* OpenTip (current shape): finder and deposit are dedicated fields
CurrentTips ==
  {[findersFee |-> Bool(ff), finder |-> f, deposit |-> d, closes |-> c, tips |-> t] :
     ff \in BOOLEAN, f \in AccountIds, d \in Deposits,
     c \in {None} \cup {Some(b) : b \in Blocks},
     t \in SeqsUpTo(Contributions, MaxTips)}

\* OpenTipTo225 (legacy shape): finder is Option<(AccountId, Balance)>
LegacyTips ==
  {[findersFee |-> Undefined, finder |-> f, deposit |-> Undefined, closes |-> c, tips |-> t] :
     f \in {None} \cup {Some(<<a, d>>) : a \in AccountIds, d \in Deposits},
     c \in {None} \cup {Some(b) : b \in Blocks},
     t \in SeqsUpTo(Contributions, MaxTips)}

TipRecords == CurrentTips \cup LegacyTips

AccountLists == {<<>>, <<"A">>, <<"B">>, <<"A", "B">>}

(***************************************************************************)
(* extractTipState                                                         *)
(***************************************************************************)
\* variant: the flag's value decides the shape
isCurrentTipByValue(t) == t.findersFee.class = "bool" /\ t.findersFee.value

isCurrentTip(t) == Truthy(t.findersFee)

extractFinder(t) ==
  IF isCurrentTip(t) THEN t.finder
  ELSE IF isSome(t.finder) THEN unwrap(t.finder)[1]
  ELSE Null

extractDeposit(t) ==
  IF isCurrentTip(t) THEN t.deposit
  ELSE IF isSome(t.finder) THEN unwrap(t.finder)[2]
  ELSE Null

\* BN.cmp
cmp(a, b) == IF a < b THEN -1 ELSE IF a > b THEN 1 ELSE 0

\* insert x after every element that does not compare greater (stable)
RECURSIVE insertSorted(_, _)
insertSorted(s, x) ==
  IF s = <<>> THEN <<x>>
  ELSE IF cmp(Head(s), x) > 0 THEN <<x>> \o s
  ELSE <<Head(s)>> \o insertSorted(Tail(s), x)

\* Array.prototype.sort((a, b) => a.cmp(b)): a stable ascending sort
RECURSIVE sort(_)
sort(s) ==
  IF s = <<>> THEN <<>>
  ELSE insertSorted(sort(SubSeq(s, 1, Len(s) - 1)), s[Len(s)])

\* tip.tips.map(([, value]) => value).sort(...)
sortedValues(t) == sort([i \in DOMAIN t.tips |-> t.tips[i][2]])

\* BN.divn(2) of a non-negative BN
divn2(n) == n \div 2

\* variant: an even count takes the upper middle element
computeMedianUpperMiddle(values) ==
  IF Len(values) # 0 THEN values[Len(values) \div 2 + 1] ELSE 0

computeMedian(values) ==
  LET midIndex == Len(values) \div 2   \* Math.floor(values.length / 2), 0-based
  IN IF Len(values) # 0
       THEN IF Len(values) % 2 # 0
              THEN values[midIndex + 1]
              ELSE divn2(values[midIndex] + values[midIndex + 1])
       ELSE 0

\* variant: any finder counts as local
computeIsFinderAnyFinder(finder, accounts) == Truthy(finder)

computeIsFinder(finder, accounts) ==
  Truthy(finder) /\ includes(accounts, toString(finder))

\* variant: tipped when the median is non-zero
computeIsTippedByMedian(values) == computeMedian(values) # 0

computeIsTipped(values) == Len(values) # 0

\* variant: every instead of some
computeIsTipperEvery(t, accounts) ==
  \A i \in DOMAIN t.tips : includes(accounts, toString(t.tips[i][1]))

computeIsTipper(t, accounts) ==
  \E i \in DOMAIN t.tips : includes(accounts, toString(t.tips[i][1]))

extractTipState(t, accounts) ==
  LET values == sortedValues(t)
      finder == extractFinder(t)
  IN [closesAt |-> unwrapOr(t.closes, Null),
      deposit |-> extractDeposit(t),
      finder |-> finder,
      isFinder |-> computeIsFinder(finder, accounts),
      isTipped |-> computeIsTipped(values),
      isTipper |-> computeIsTipper(t, accounts),
      median |-> computeMedian(values)]

(***************************************************************************)
(* SpecExtract: extractTipState called on a tip record while the chain     *)
(* adds contributions and the local account list changes                   *)
(***************************************************************************)
NoResult == [class |-> "none"]

\* the Tip component is not mounted and Tabs is not rendered
TipIdle ==
  /\ tip = Null /\ allAccounts = Null /\ hash = "" /\ isMember = FALSE
  /\ onlyUntipped = FALSE /\ bestNumber = Null /\ onSelect = ""
  /\ memoDeps = Null /\ memoState = Null /\ isMedianSelected = FALSE
  /\ updates = <<>> /\ selectDeps = Null /\ memberDeps = Null
  /\ selectPending = FALSE /\ memberPending = FALSE
  /\ lastOnSelect = Null /\ userSet = FALSE

TabsIdle ==
  /\ basePath = <<>> /\ hidden = Null /\ items = <<>> /\ location = <<>>
  /\ effectPending = FALSE /\ redirects = 0

InitExtract ==
  /\ argTip \in {t \in TipRecords : t.tips = <<>>}
  /\ argAccounts \in AccountLists
  /\ result = NoResult
  /\ TipIdle
  /\ TabsIdle

\* the call extractTipState(tip, allAccounts)
Call ==
  /\ result = NoResult
  /\ result' = extractTipState(argTip, argAccounts)
  /\ UNCHANGED <<argTip, argAccounts, tipVars, tabsVars>>

\* a new tip record with one more contribution is observed
Contribute ==
  /\ Len(argTip.tips) < MaxTips
  /\ \E c \in Contributions :
       argTip' = [argTip EXCEPT !.tips = Append(@, c)]
  /\ result' = NoResult
  /\ UNCHANGED <<argAccounts, tipVars, tabsVars>>

\* the local account list changes
AccountsChange ==
  /\ \E a \in AccountLists : a # argAccounts /\ argAccounts' = a
  /\ result' = NoResult
  /\ UNCHANGED <<argTip, tipVars, tabsVars>>

NextExtract == Call \/ Contribute \/ AccountsChange

SpecExtract == InitExtract /\ [][NextExtract]_vars

(***************************************************************************)
(* Properties of extractTipState                                           *)
(***************************************************************************)
amountsOf(t) == [i \in DOMAIN t.tips |-> t.tips[i][2]]

\* the k-th smallest (k = 1 is the smallest) element of a non-empty sequence,
\* by counting: fewer than k elements are below it, at least k are not above
KthSmallest(s, k) ==
  CHOOSE x \in {s[i] : i \in DOMAIN s} :
    /\ Cardinality({i \in DOMAIN s : s[i] < x}) < k
    /\ Cardinality({i \in DOMAIN s : s[i] <= x}) >= k

\* v[(n-1)/2] for odd n, floor((v[n/2-1] + v[n/2]) / 2) for even n (v 0-based)
StandardMedian(s) ==
  LET n == Len(s)
  IN IF n % 2 = 1
       THEN KthSmallest(s, (n - 1) \div 2 + 1)
       ELSE (KthSmallest(s, n \div 2) + KthSmallest(s, n \div 2 + 1)) \div 2

permuted(t, p) == [t EXCEPT !.tips = [i \in DOMAIN t.tips |-> t.tips[p[i]]]]

withAccounts(t, f) == [t EXCEPT !.tips = [i \in DOMAIN t.tips |-> <<f[i], t.tips[i][2]>>]]

withAmounts(t, f) == [t EXCEPT !.tips = [i \in DOMAIN t.tips |-> <<t.tips[i][1], f[i]>>]]

\* C1: for a non-empty contribution sequence the returned median is the
\* standard median of the amounts (middle element of the ascending order for
\* an odd count, floor of the mean of the two middle elements for an even
\* count), is the same for every permutation of the contributions and does
\* not depend on the contributors' accounts.
C1_MedianIsStandard ==
  (result # NoResult /\ argTip.tips # <<>>) =>
    /\ result.median = StandardMedian(amountsOf(argTip))
    /\ \A p \in Permutations(DOMAIN argTip.tips) :
         extractTipState(permuted(argTip, p), argAccounts).median = result.median
    /\ \A a \in AccountIds :
         extractTipState(withAccounts(argTip, [i \in DOMAIN argTip.tips |-> a]),
                         argAccounts).median = result.median

\* three contributions given in descending order: the median is the second
C1_Witness ==
  /\ result # NoResult
  /\ Len(argTip.tips) = 3
  /\ amountsOf(argTip) = <<5, 2, 0>>
  /\ result.median = 2

\* C2: isTipped is true exactly when the contribution sequence is non-empty,
\* and for an empty sequence the median is 0 and isTipped is false, whatever
\* the finder, deposit, closes and account list are.
C2_IsTippedIffNonEmpty ==
  result # NoResult =>
    /\ result.isTipped <=> (argTip.tips # <<>>)
    /\ argTip.tips = <<>> => (result.median = 0 /\ ~result.isTipped)

\* no contributions, a finder present and a closing block set
C2_Witness ==
  /\ result # NoResult
  /\ argTip.tips = <<>>
  /\ isSome(argTip.closes)
  /\ result.finder # Null
  /\ argAccounts # <<>>
  /\ result.median = 0
  /\ ~result.isTipped

hasFindersFee(t) == t.findersFee.class = "bool"

\* C3: a record that carries a findersFee flag (whatever its value) yields its
\* dedicated finder and deposit fields; a legacy record with the optional
\* finder present yields the two components of the wrapped pair, both
\* non-null; a legacy record with the optional finder absent yields null, null.
C3_FinderDepositByShape ==
  result # NoResult =>
    /\ hasFindersFee(argTip) =>
         (result.finder = argTip.finder /\ result.deposit = argTip.deposit)
    /\ (~hasFindersFee(argTip) /\ argTip.finder.isSome) =>
         /\ result.finder = argTip.finder.value[1]
         /\ result.deposit = argTip.finder.value[2]
         /\ result.finder # Null
         /\ result.deposit # Null
    /\ (~hasFindersFee(argTip) /\ ~argTip.finder.isSome) =>
         (result.finder = Null /\ result.deposit = Null)

\* a current-shape record whose findersFee flag wraps false
C3_Witness ==
  /\ result # NoResult
  /\ hasFindersFee(argTip)
  /\ argTip.findersFee.value = FALSE
  /\ result.finder = argTip.finder
  /\ result.deposit \in Deposits

elements(arr) == {arr[i] : i \in DOMAIN arr}

\* C4: isFinder is true exactly when the extracted finder is non-null and its
\* address is one of the local accounts; it is false when the finder is null
\* and when there are no local accounts.
C4_IsFinderIff ==
  result # NoResult =>
    /\ result.isFinder <=>
         (result.finder # Null /\ result.finder.address \in elements(argAccounts))
    /\ result.finder = Null => ~result.isFinder
    /\ argAccounts = <<>> => ~result.isFinder

\* a finder that is present but is not a local account
C4_Witness ==
  /\ result # NoResult
  /\ result.finder # Null
  /\ argAccounts # <<>>
  /\ result.finder.address \notin elements(argAccounts)
  /\ ~result.isFinder

\* C5: isTipper is true exactly when some contribution's account address is
\* one of the local accounts; it is false without contributions and without
\* local accounts, and does not depend on the amounts.
C5_IsTipperIff ==
  result # NoResult =>
    /\ result.isTipper <=>
         (\E i \in DOMAIN argTip.tips : argTip.tips[i][1].address \in elements(argAccounts))
    /\ argTip.tips = <<>> => ~result.isTipper
    /\ argAccounts = <<>> => ~result.isTipper
    /\ \A n \in Amounts :
         extractTipState(withAmounts(argTip, [i \in DOMAIN argTip.tips |-> n]),
                         argAccounts).isTipper = result.isTipper

\* two contributions of which only the second is by a local account
C5_Witness ==
  /\ result # NoResult
  /\ Len(argTip.tips) = 2
  /\ argTip.tips[1][1].address \notin elements(argAccounts)
  /\ argTip.tips[2][1].address \in elements(argAccounts)
  /\ result.isTipper

(***************************************************************************)
(* Spec: the Tip component.  Objects handed to the component have an       *)
(* identity (id); the hooks compare dependencies by identity (Object.is).  *)
(***************************************************************************)
Current(ff, f, c, t) ==
  [findersFee |-> Bool(ff), finder |-> AccountId(f), deposit |-> Balance(7),
   closes |-> c, tips |-> t]

Legacy(f, c, t) ==
  [findersFee |-> Undefined, finder |-> f, deposit |-> Undefined,
   closes |-> c, tips |-> t]

\* the tip objects the host can deliver; 3 and 4 are distinct objects with
\* the same content
TipPool ==
  { [id |-> 1, rec |-> Current(TRUE, "A", None, <<>>)],
    [id |-> 2, rec |-> Legacy(None, None, <<<<AccountId("A"), 2>>>>)],
    [id |-> 3, rec |-> Current(FALSE, "B", Some(BlockNumber(9)),
                               <<<<AccountId("B"), 5>>, <<AccountId("A"), 0>>>>)],
    [id |-> 4, rec |-> Current(FALSE, "B", Some(BlockNumber(9)),
                               <<<<AccountId("B"), 5>>, <<AccountId("A"), 0>>>>)],
    [id |-> 5, rec |-> Legacy(Some(<<AccountId("A"), Balance(7)>>), None,
                              <<<<AccountId("B"), 5>>>>)] }

\* the arrays useAccounts can return; 2 and 4 are distinct arrays with the
\* same content
AccountsPool ==
  { [id |-> 1, arr |-> <<>>],
    [id |-> 2, arr |-> <<"A">>],
    [id |-> 3, arr |-> <<"A", "B">>],
    [id |-> 4, arr |-> <<"A">>] }

Hashes == {"0x01", "0x02"}
BestNumbers == {Undefined, BlockNumber(8)}
\* the functions the host can pass as onSelect
Callbacks == {"onSelect1", "onSelect2"}

\* a BN object: its identity and its value
BN(ref, val) == [ref |-> ref, val |-> val]

\* which BN object line 63-67 yields: the constant BN_ZERO, an element of the
\* tip's own contributions, or a new object made by add/divn in this call
medianRef(t, accounts) ==
  IF Len(t.rec.tips) = 0 THEN [kind |-> "BN_ZERO", tip |-> 0, accounts |-> 0]
  ELSE IF Len(t.rec.tips) % 2 # 0 THEN [kind |-> "tips", tip |-> t.id, accounts |-> 0]
  ELSE [kind |-> "new", tip |-> t.id, accounts |-> accounts.id]

\* extractTipState on objects: the TipState with its median as a BN object
extractTipStateObj(t, accounts) ==
  LET state == extractTipState(t.rec, accounts.arr)
  IN [state EXCEPT !.median = BN(medianRef(t, accounts), state.median)]

\* dependency lists of the three hooks
\* variant: the account array is missing from the dependencies
useMemoDepsTipOnly(accounts, t) == <<t.id>>
\* variant: the toggle is missing from the dependencies
onSelectDepsNoToggle(h, selected, median, callback) == <<h, median.ref, callback>>
\* variant: isTipper is missing from the dependencies
setMedianDepsMemberOnly(member, tipper) == <<member>>

useMemoDeps(accounts, t) == <<accounts.id, t.id>>
onSelectDeps(h, selected, median, callback) == <<h, selected, median.ref, callback>>
setMedianDeps(member, tipper) == <<member, tipper>>

\* the useState reducer: the queued setMedianTip calls applied in order
applyUpdates(selected, queue) ==
  IF queue = <<>> THEN selected ELSE queue[Len(queue)]

\* useMemo: recompute only when a dependency changed
useMemo(prevDeps, prevValue, accounts, t) ==
  IF prevDeps = useMemoDeps(accounts, t)
    THEN prevValue
    ELSE extractTipStateObj(t, accounts)

\* one render of Tip with the given props and account array: the hooks in
\* source order.  React flushes the passive effects of the previous render
\* before it renders again.
Render(t, accounts, h, member, untipped, best, callback) ==
  LET state == useMemo(memoDeps, memoState, accounts, t)
      selected == applyUpdates(isMedianSelected, updates)
  IN /\ ~selectPending /\ ~memberPending
     /\ tip' = t /\ allAccounts' = accounts /\ hash' = h
     /\ isMember' = member /\ onlyUntipped' = untipped /\ bestNumber' = best
     /\ onSelect' = callback
     /\ memoDeps' = useMemoDeps(accounts, t)
     /\ memoState' = state
     /\ isMedianSelected' = selected
     /\ updates' = <<>>
     /\ selectDeps' = onSelectDeps(h, selected, state.median, callback)
     /\ selectPending' = (selectDeps' # selectDeps)
     /\ memberDeps' = setMedianDeps(member, state.isTipper)
     /\ memberPending' = (memberDeps' # memberDeps)
     /\ UNCHANGED <<lastOnSelect, userSet, extractVars, tabsVars>>

ExtractIdle == argTip = Null /\ argAccounts = Null /\ result = NoResult

\* the state after the first render (mount): useState(false), the memo
\* computed, both effects scheduled, onSelect never called
Init ==
  /\ tip \in TipPool
  /\ allAccounts \in AccountsPool
  /\ hash \in Hashes
  /\ isMember \in BOOLEAN
  /\ onlyUntipped \in BOOLEAN
  /\ bestNumber \in BestNumbers
  /\ onSelect \in Callbacks
  /\ memoDeps = useMemoDeps(allAccounts, tip)
  /\ memoState = extractTipStateObj(tip, allAccounts)
  /\ isMedianSelected = FALSE
  /\ updates = <<>>
  /\ selectDeps = onSelectDeps(hash, isMedianSelected, memoState.median, onSelect)
  /\ memberDeps = setMedianDeps(isMember, memoState.isTipper)
  /\ selectPending = TRUE
  /\ memberPending = TRUE
  /\ lastOnSelect = Null
  /\ userSet = FALSE
  /\ ExtractIdle
  /\ TabsIdle

\* the host passes a new tip record
TipUpdate ==
  \E t \in TipPool :
    /\ t.id # tip.id
    /\ Render(t, allAccounts, hash, isMember, onlyUntipped, bestNumber, onSelect)

\* useAccounts returns a new account array
AccountsUpdate ==
  \E a \in AccountsPool :
    /\ a.id # allAccounts.id
    /\ Render(tip, a, hash, isMember, onlyUntipped, bestNumber, onSelect)

\* both arrive in the same render
TipAndAccountsUpdate ==
  \E t \in TipPool, a \in AccountsPool :
    /\ t.id # tip.id /\ a.id # allAccounts.id
    /\ Render(t, a, hash, isMember, onlyUntipped, bestNumber, onSelect)

HashUpdate ==
  \E h \in Hashes :
    /\ h # hash
    /\ Render(tip, allAccounts, h, isMember, onlyUntipped, bestNumber, onSelect)

MemberUpdate ==
  Render(tip, allAccounts, hash, ~isMember, onlyUntipped, bestNumber, onSelect)

ViewUpdate ==
  \E u \in BOOLEAN, b \in BestNumbers :
    /\ <<u, b>> # <<onlyUntipped, bestNumber>>
    /\ Render(tip, allAccounts, hash, isMember, u, b, onSelect)

\* the host passes another onSelect function
CallbackUpdate ==
  \E f \in Callbacks :
    /\ f # onSelect
    /\ Render(tip, allAccounts, hash, isMember, onlyUntipped, bestNumber, f)

\* the render scheduled by queued setMedianTip calls
StateRender ==
  /\ updates # <<>>
  /\ Render(tip, allAccounts, hash, isMember, onlyUntipped, bestNumber, onSelect)

\* Checkbox onChange={setMedianTip}
Toggle ==
  /\ Len(updates) < MaxQueue
  /\ \E v \in BOOLEAN : updates' = Append(updates, v)
  /\ userSet' = TRUE
  /\ UNCHANGED <<tip, allAccounts, hash, isMember, onlyUntipped, bestNumber, onSelect,
                 memoDeps, memoState, isMedianSelected,
                 selectDeps, memberDeps, selectPending, memberPending,
                 lastOnSelect, extractVars, tabsVars>>

\* the effect of lines 97-99
onSelectEffect ==
  [callback |-> onSelect, hash |-> hash, isSelected |-> isMedianSelected,
   value |-> memoState.median]

\* the effect of lines 101-103
setMedianEffect == isMember /\ ~memoState.isTipper

\* the passive effects of the last render run, in source order
FlushEffects ==
  /\ selectPending \/ memberPending
  /\ lastOnSelect' = IF selectPending THEN onSelectEffect ELSE lastOnSelect
  /\ updates' = IF memberPending THEN Append(updates, setMedianEffect) ELSE updates
  /\ userSet' = IF memberPending THEN FALSE ELSE userSet
  /\ selectPending' = FALSE
  /\ memberPending' = FALSE
  /\ UNCHANGED <<tip, allAccounts, hash, isMember, onlyUntipped, bestNumber, onSelect,
                 memoDeps, memoState, isMedianSelected, selectDeps, memberDeps,
                 extractVars, tabsVars>>

Next ==
  \/ TipUpdate
  \/ AccountsUpdate
  \/ TipAndAccountsUpdate
  \/ HashUpdate
  \/ MemberUpdate
  \/ ViewUpdate
  \/ CallbackUpdate
  \/ StateRender
  \/ Toggle
  \/ FlushEffects

Spec == Init /\ [][Next]_vars

(***************************************************************************)
(* Properties of the Tip component                                         *)
(***************************************************************************)
\* the TipState without the identity of its median
valueOf(state) == [state EXCEPT !.median = state.median.val]

\* C6: after every render the TipState in use equals extractTipState of the
\* current tip record and the current account array, in whatever order the
\* tip and account updates arrived.
C6_TipStateIsCurrent ==
  valueOf(memoState) = extractTipState(tip.rec, allAccounts.arr)

\* a tip or account update arrived after onSelect was last called
C6_Witness ==
  /\ lastOnSelect # Null
  /\ selectPending
  /\ lastOnSelect.value.val # memoState.median.val
  /\ memoState.isTipper
  /\ valueOf(memoState) = extractTipState(tip.rec, allAccounts.arr)

noEffectPending == ~selectPending /\ ~memberPending

\* C7: every change of isMedianSelected schedules the onSelect effect, and
\* whenever no effect is pending the last onSelect call carried the current
\* hash, isMedianSelected and median.
C7_OnSelectFollowsToggle ==
  /\ [](noEffectPending =>
          /\ lastOnSelect # Null
          /\ lastOnSelect = [callback |-> onSelect, hash |-> hash,
                             isSelected |-> isMedianSelected,
                             value |-> memoState.median])
  /\ [][isMedianSelected' # isMedianSelected => selectPending']_vars

\* the checkbox switched the selection off and onSelect was told so
C7_Witness ==
  /\ noEffectPending
  /\ updates = <<>>
  /\ userSet
  /\ ~isMedianSelected
  /\ isMember /\ ~memoState.isTipper
  /\ lastOnSelect # Null
  /\ lastOnSelect.isSelected = FALSE

quiescent == noEffectPending /\ updates = <<>>

\* C9: after mount and after any change of isMember or isTipper the effect
\* that sets isMedianSelected is scheduled, and once nothing is pending
\* isMedianSelected = isMember /\ ~isTipper unless the checkbox was used after
\* that effect ran; a render in which neither isMember nor isTipper changed
\* (hash, median, onlyUntipped or bestNumber changed) leaves isMedianSelected
\* as it is.
C9_SelectionFollowsMembership ==
  /\ []((quiescent /\ ~userSet) =>
          isMedianSelected = (isMember /\ ~memoState.isTipper))
  /\ [][(isMember' # isMember \/ memoState'.isTipper # memoState.isTipper)
          => memberPending']_vars
  /\ [][(isMember' = isMember /\ memoState'.isTipper = memoState.isTipper)
          => /\ memberPending' => memberPending
             /\ updates = <<>> => isMedianSelected' = isMedianSelected]_vars

\* the median was selected, then isMember or isTipper changed and the effect
\* has queued the deselection, after any checkbox call
C9_Witness ==
  /\ noEffectPending
  /\ ~userSet
  /\ isMedianSelected
  /\ ~(isMember /\ ~memoState.isTipper)
  /\ updates = <<FALSE>>

(***************************************************************************)
(* SpecTabs: the redirect effect of the Tabs component.  A path such as    *)
(* /staking/query is the sequence of its segments <<"staking", "query">>;  *)
(* the JavaScript value undefined is the reserved string Undef, which is   *)
(* no segment and no name.                                                 *)
(***************************************************************************)
\* most items of a tab list
MaxItems == 2

Undef == "%undefined"
Names == {"a", "b"}
Segments == {"s", "a", "b"}

\* TabItem: name, optional alias, optional isRoot
TabItems == [name : Names, alias : Names \cup {Undef}, isRoot : BOOLEAN]
ItemLists == UNION {[1..k -> TabItems] : k \in 1..MaxItems}

\* the optional prop hidden: not supplied, or an array of names and
\* undefined entries
NotSupplied == [supplied |-> FALSE, list |-> <<>>]
HiddenValues ==
  {NotSupplied} \cup
  {[supplied |-> TRUE, list |-> l] : l \in {<<>>, <<"a">>, <<"b">>, <<Undef>>}}

BasePaths == {<<"s">>, <<"s", "a">>}
Locations == UNION {[1..k -> Segments] : k \in 1..3}

\* const [,, section] = location.pathname.split('/')
sectionOf(pathname) == IF Len(pathname) >= 2 THEN pathname[2] ELSE Undef

\* items.find(({ alias }) => alias === section): the first match, or NoItem
NoItem == [name |-> Undef, alias |-> Undef, isRoot |-> FALSE]
findAlias(list, section) ==
  IF \E i \in DOMAIN list : list[i].alias = section
    THEN list[CHOOSE i \in DOMAIN list :
                /\ list[i].alias = section
                /\ \A j \in 1..(i - 1) : list[j].alias # section]
    ELSE NoItem

\* items.some(({ isRoot, name }) => !isRoot && name === section)
isNonRootName(list, section) ==
  \E i \in DOMAIN list : ~list[i].isRoot /\ list[i].name = section

\* the condition of line 37
isInvalid(h, list, section) ==
  h.supplied /\ (includes(h.list, section) \/ ~isNonRootName(list, section))

\* the body of the effect: the value assigned to window.location.hash, or
\* the location itself when no branch assigns
\* variant: the comparison with basePath is missing
redirectTargetNoGuard(path, base, h, list) ==
  LET section == sectionOf(path)
      alias == findAlias(list, section)
  IN IF alias # NoItem
       THEN IF alias.isRoot THEN base ELSE base \o <<alias.name>>
       ELSE IF isInvalid(h, list, section) THEN base
       ELSE path

redirectTarget(path, base, h, list) ==
  IF path # base
    THEN LET section == sectionOf(path)
             alias == findAlias(list, section)
         IN IF alias # NoItem
              THEN IF alias.isRoot THEN base ELSE base \o <<alias.name>>
              ELSE IF isInvalid(h, list, section) THEN base
              ELSE path
    ELSE path

InitTabs ==
  /\ basePath \in BasePaths
  /\ hidden \in HiddenValues
  /\ items \in ItemLists
  /\ location \in Locations
  /\ effectPending = TRUE
  /\ redirects = 0
  /\ ExtractIdle
  /\ TipIdle

\* the effect runs after mount and after every change of location; an
\* assignment that changes the hash changes the location and so schedules
\* the effect again
RedirectEffect ==
  /\ effectPending
  /\ redirects < MaxRedirects
  /\ location' = redirectTarget(location, basePath, hidden, items)
  /\ effectPending' = (location' # location)
  /\ redirects' = IF location' # location THEN redirects + 1 ELSE redirects
  /\ UNCHANGED <<basePath, hidden, items, extractVars, tipVars>>

\* the user follows a link once the redirects have settled
Navigate ==
  /\ ~effectPending
  /\ \E l \in Locations : l # location /\ location' = l
  /\ effectPending' = TRUE
  /\ redirects' = 0
  /\ UNCHANGED <<basePath, hidden, items, extractVars, tipVars>>

NextTabs == RedirectEffect \/ Navigate

SpecTabs == InitTabs /\ [][NextTabs]_vars

(***************************************************************************)
(* Properties of the redirect effect                                       *)
(***************************************************************************)
isAliasOfItem(section) == \E i \in DOMAIN items : items[i].alias = section

isVisibleTabName(section) ==
  \E i \in DOMAIN items :
    /\ ~items[i].isRoot
    /\ items[i].name = section
    /\ ~(hidden.supplied /\ section \in elements(hidden.list))

isInvalidTab ==
  /\ location # basePath
  /\ ~isAliasOfItem(sectionOf(location))
  /\ ~isVisibleTabName(sectionOf(location))

\* a step of the redirect effect (Navigate leaves effectPending FALSE -> TRUE)
effectStep == effectPending /\ redirects < MaxRedirects

\* C8: whether or not a hidden list is supplied, the effect run at a location
\* that differs from basePath and whose section is neither an alias nor the
\* name of a visible non-root item sets the location to basePath.
C8_RedirectsInvalidTab ==
  [][(effectStep /\ isInvalidTab) => location' = basePath]_vars

\* C8 restricted to a supplied hidden list
C8_RedirectsInvalidTabWhenHiddenSupplied ==
  [][(effectStep /\ isInvalidTab /\ hidden.supplied) => location' = basePath]_vars

noNameIsAlias ==
  \A i, j \in DOMAIN items : items[i].name # items[j].alias

====
